---- MODULE Spec2Model ----
(***************************************************************************)
(* Model of server.js: an HTTP service that keeps one dataset (columns and *)
(* records) in a JSON document, data.json.  Every request is handled by    *)
(* requestListener, an async function; between two of its awaits (the body *)
(* stream, fs.readFile, fs.writeFile) the event loop may run the steps of  *)
(* any other request in flight.  One action of the model is one such       *)
(* uninterrupted step.                                                     *)
(*                                                                         *)
(* JSON values are written as tagged strings: "s:x" is the string x, "s:"  *)
(* the empty string, "n:5" the number 5, "b:true", "null"; "fn:Object" is  *)
(* the function a plain object inherits as its constructor property, and   *)
(* "undefined" is JavaScript's undefined (an absent property).             *)
(***************************************************************************)
EXTENDS Integers, Sequences, FiniteSets, TLC

\* ------------------------------------------------------------ bounds
\* Requests accepted in one behaviour (connections are reused).
MaxStarted == 2

\* The connections that can be in flight together.
Conn == {1, 2}

\* ------------------------------------------------------------ JSON values
Undefined == "undefined"

\* Property names that occur: two ordinary columns, a name every plain object
\* inherits from Object.prototype, and a field that is never a column.
Keys == {"a", "b", "constructor", "z"}

\* Names a plain object has without owning them (Object.prototype).
ProtoKeys == {"constructor"}

\* JavaScript's ToBoolean on the values that occur.
Truthy(v) == v \notin {Undefined, "null", "b:false", "n:0", "s:"}

\* A JavaScript object as a total map: absent properties are Undefined.
Obj(f) == [k \in Keys |-> IF k \in DOMAIN f THEN f[k] ELSE Undefined]

EmptyObj == [k \in Keys |-> Undefined]

Range(s) == {s[i] : i \in DOMAIN s}

\* Array.prototype.includes
Includes(s, x) == \E i \in DOMAIN s : s[i] = x

\* ------------------------------------------------------------ documents
Doc(k, cs, rs) == [kind |-> k, columns |-> cs, records |-> rs]

\* No data.json
AbsentDoc == Doc("absent", <<>>, <<>>)
\* data.json that readFile or JSON.parse fails on
CorruptDoc == Doc("corrupt", <<>>, <<>>)
\* data.json holding {}: valid JSON with neither columns nor records
ShapelessDoc == Doc("shapeless", <<>>, <<>>)
\* no value
NoDoc == Doc("none", <<>>, <<>>)

\* Mutant of InitialData: the default document is {}.
InitialDataBare == ShapelessDoc

\* initialData of readData
InitialData == Doc("ok", <<>>, <<>>)

\* JSON.stringify of one record: a property whose value is a function is left out.
StringifyRecord(o) == [k \in Keys |-> IF o[k] = "fn:Object" THEN Undefined ELSE o[k]]

\* JSON.stringify(data, null, 2) followed by the JSON.parse of the next reader.
Stringify(d) ==
    IF d.kind = "ok"
    THEN Doc("ok", d.columns, [i \in DOMAIN d.records |-> StringifyRecord(d.records[i])])
    ELSE d

\* ------------------------------------------------------------ parseInt
\* The characters parseInt reads as digits, by value (lower case only: the
\* path segments of the model hold no upper-case letter).
HexChars == <<"0", "1", "2", "3", "4", "5", "6", "7", "8", "9", "a", "b", "c", "d", "e", "f">>

IsDigit(ch, radix) == \E i \in 1..radix : HexChars[i] = ch

DigitVal(ch) == (CHOOSE i \in 1..16 : HexChars[i] = ch) - 1

\* The longest prefix of s made of digits of the radix.
RECURSIVE DigitPrefix(_, _)
DigitPrefix(s, radix) ==
    IF s = <<>> \/ ~IsDigit(Head(s), radix)
    THEN <<>>
    ELSE <<Head(s)>> \o DigitPrefix(Tail(s), radix)

RECURSIVE DigitsValue(_, _, _)
DigitsValue(s, radix, acc) ==
    IF s = <<>> THEN acc
    ELSE DigitsValue(Tail(s), radix, acc * radix + DigitVal(Head(s)))

NaN == [nan |-> TRUE, val |-> 0]

\* parseInt(indexStr) with no radix: an optional sign, then "0x" selects
\* radix 16, then the longest digit prefix; NaN when that prefix is empty.
\* (Leading white space, which parseInt skips, cannot occur in a request path.)
ParseInt(s) ==
    LET neg == s # <<>> /\ Head(s) = "-"
        s1 == IF s # <<>> /\ Head(s) \in {"-", "+"} THEN Tail(s) ELSE s
        hex == Len(s1) >= 2 /\ s1[1] = "0" /\ s1[2] = "x"
        s2 == IF hex THEN Tail(Tail(s1)) ELSE s1
        radix == IF hex THEN 16 ELSE 10
        z == DigitPrefix(s2, radix)
    IN  IF z = <<>> THEN NaN
        ELSE [nan |-> FALSE,
              val |-> IF neg THEN 0 - DigitsValue(z, radix, 0) ELSE DigitsValue(z, radix, 0)]

\* ------------------------------------------------------------ requests
Body(k, f, ck, cs) == [kind |-> k, fields |-> f, colsKind |-> ck, cols |-> cs]

\* A body that is not a JSON object: kind is "malformed" (text JSON.parse
\* rejects), "empty" (zero bytes), "null", "string", "number", "boolean" or "array".
Plain(k) == Body(k, EmptyObj, "missing", <<>>)

\* A JSON object without a `columns` field.
ObjBody(f) == Body("object", Obj(f), "missing", <<>>)

\* A JSON object {"columns": cs}.
ColsBody(cs) == Body("object", EmptyObj, "array", cs)

NonObjectKinds == {"malformed", "empty", "null", "string", "number", "boolean", "array"}

RecordBodies ==
    {Plain(k) : k \in NonObjectKinds}
    \cup {ObjBody([a |-> "s:x", z |-> "s:y"]),
          ObjBody([a |-> "s:", b |-> "n:5"]),
          ObjBody([a |-> "n:0", b |-> "null", constructor |-> "s:c"])}

ColumnBodies ==
    {Plain(k) : k \in NonObjectKinds \ {"boolean"}}
    \cup {ObjBody([a |-> "s:x"]),
          Body("object", EmptyObj, "other", <<>>),
          ColsBody(<<"a">>), ColsBody(<<"b", "constructor">>)}

\* urlParts[3] of DELETE /api/records/<segment>, as its characters.
Segments ==
    {<<>>, <<"0">>, <<"1">>, <<"1", "0">>, <<"-", "1">>,
     <<"a", "b", "c">>, <<"1", "a", "b", "c">>, <<"0", "x", "1">>}

Request(m, r, sg, b, st) == [method |-> m, route |-> r, seg |-> sg, body |-> b, stream |-> st]

NoRequest == Request("", "", <<>>, Plain("empty"), "end")

\* What a client can send.  route "/api/records/" stands for every url that
\* starts with it, seg being the path segment that follows; "/other" for a url
\* no route matches.  stream is how the body stream finishes: "end", "error",
\* or "hang" (neither event ever comes).
Requests ==
    {Request("OPTIONS", r, <<>>, Plain("empty"), "end") : r \in {"/api/data", "/other"}}
    \cup {Request("GET", r, <<>>, Plain("empty"), "end") : r \in {"/api/data", "/other"}}
    \cup {Request("POST", "/api/columns", <<>>, b, "end") : b \in ColumnBodies}
    \cup {Request("POST", "/api/records", <<>>, b, "end") : b \in RecordBodies}
    \cup {Request("POST", "/api/records", <<>>, Plain("empty"), st) : st \in {"error", "hang"}}
    \cup {Request("POST", "/api/columns", <<>>, Plain("empty"), "error")}
    \cup {Request("DELETE", "/api/records/", sg, Plain("empty"), "end") : sg \in Segments}
    \cup {Request("DELETE", "/api/records", <<>>, Plain("empty"), "end")}

\* ------------------------------------------------------------ state
VARIABLES
    file,      \* data.json: AbsentDoc, CorruptDoc, ShapelessDoc or a dataset
    writable,  \* whether fs.writeFile on data.json succeeds
    pc,        \* per connection: idle, body, read, init, write, done
    req,       \* per connection: the request being handled
    data,      \* per connection: the handler's local `data`
    status,    \* per connection: the status code sent (0: none yet)
    out,       \* per connection: the response body sent
    sent,      \* per connection: how many responses were written
    loaded,    \* per connection: what readData returned to this request
    pre,       \* per connection: data.json when the request arrived
    solo,      \* per connection: no other request was in flight during this one
    nread,     \* per connection: readFile calls completed for this request
    nwrite,    \* per connection: writeFile calls that changed data.json
    quiet,     \* per connection: no writeFile completed since the request arrived
    lastWriter,\* the connection whose writeFile was the last to complete (0: none)
    started    \* requests accepted so far

vars == <<file, writable, pc, req, data, status, out, sent, loaded, pre, solo,
          nread, nwrite, quiet, lastWriter, started>>

\* ------------------------------------------------------------ handler logic
\* What one uninterrupted step of requestListener decides: where the handler
\* stands next, its local data, and, when next is "done", the response sent.
Outcome(nx, d, code, body, m) ==
    [next |-> nx, data |-> d, status |-> code, doc |-> body, message |-> m]

Goto(nx, d) == Outcome(nx, d, 0, NoDoc, "")

\* sendResponse(res, statusCode, data)
SendResponse(code, body, m) == Outcome("done", NoDoc, code, body, m)

\* Mutant of CatchError: the error is logged and no response is written.
CatchErrorSilent(m) == Goto("lost", NoDoc)

\* The catch of requestListener: every thrown error or rejected await.
CatchError(m) == SendResponse(500, NoDoc, m)

\* handleOptions(res)
HandleOptions == SendResponse(204, NoDoc, "")

\* Array.isArray(newColumns) after `const { columns: newColumns } = body`.
ColumnsIsArray(b) == b.kind = "object" /\ b.colsKind = "array"

\* typeof newRecord !== 'object' || Array.isArray(newRecord), negated.
\* typeof null is 'object'; an empty body was decoded as {}.
IsRecordObject(b) == b.kind \in {"object", "empty", "null"}

\* newRecord[col]: an own property, else what a plain object inherits.
Lookup(b, col) ==
    IF b.fields[col] # Undefined THEN b.fields[col]
    ELSE IF col \in ProtoKeys THEN "fn:Object"
    ELSE Undefined

\* validRecord[col] = newRecord[col] || ''
FieldValue(b, col) == IF Truthy(Lookup(b, col)) THEN Lookup(b, col) ELSE "s:"

\* validRecord after data.columns.forEach
ValidRecord(cols, b) ==
    [k \in Keys |-> IF Includes(cols, k) THEN FieldValue(b, k) ELSE Undefined]

\* Mutant of RemovedCols: the filter's negation is dropped.
RemovedColsKept(oldColumns, newColumns) ==
    SelectSeq(oldColumns, LAMBDA col : Includes(newColumns, col))

\* oldColumns.filter(col => !newColumns.includes(col))
RemovedCols(oldColumns, newColumns) ==
    SelectSeq(oldColumns, LAMBDA col : ~Includes(newColumns, col))

\* Mutant of PruneRecord: the records are copied and nothing is deleted.
PruneRecordNone(record, removedCols) == record

\* { ...record } with every removed column deleted
PruneRecord(record, removedCols) ==
    [k \in Keys |-> IF Includes(removedCols, k) THEN Undefined ELSE record[k]]

\* POST /api/columns on the loaded data
UpdateColumns(d, newColumns) ==
    LET removedCols == RemovedCols(d.columns, newColumns)
    IN  Doc("ok", newColumns,
            [i \in DOMAIN d.records |-> PruneRecord(d.records[i], removedCols)])

\* data.records.push(validRecord)
PushRecord(d, b) == Doc("ok", d.columns, Append(d.records, ValidRecord(d.columns, b)))

\* Mutant of Splice: the index is taken as counted from 1.
SpliceFromOne(d, index) ==
    Doc("ok", d.columns,
        [i \in 1..(Len(d.records) - 1) |->
            IF i < index THEN d.records[i] ELSE d.records[i + 1]])

\* data.records.splice(index, 1), index counted from 0
Splice(d, index) ==
    Doc("ok", d.columns,
        [i \in 1..(Len(d.records) - 1) |->
            IF i <= index THEN d.records[i] ELSE d.records[i + 1]])

\* The status of a mutating route's success response.
SuccessStatus(r) == IF r.route = "/api/records" THEN 201 ELSE 200

\* Mutant of OnArrival: the OPTIONS short-circuit is missing.
OnArrivalNoOptions(r) ==
    IF r.method = "GET" /\ r.route = "/api/data" THEN Goto("read", NoDoc)
    ELSE IF r.method = "POST" /\ r.route \in {"/api/columns", "/api/records"}
        THEN Goto("body", NoDoc)
    ELSE IF r.method = "DELETE" /\ r.route = "/api/records/" THEN Goto("read", NoDoc)
    ELSE SendResponse(404, NoDoc, "Not Found")

\* requestListener up to its first await.
OnArrival(r) ==
    IF r.method = "OPTIONS" THEN HandleOptions
    ELSE IF r.method = "GET" /\ r.route = "/api/data" THEN Goto("read", NoDoc)
    ELSE IF r.method = "POST" /\ r.route \in {"/api/columns", "/api/records"}
        THEN Goto("body", NoDoc)
    ELSE IF r.method = "DELETE" /\ r.route = "/api/records/" THEN Goto("read", NoDoc)
    ELSE SendResponse(404, NoDoc, "Not Found")

\* From the body stream's 'end' to the next await: parseBody's JSON.parse,
\* then the route's validation of the decoded body.
OnBody(r) ==
    IF r.body.kind = "malformed" THEN CatchError("Invalid JSON in request body")
    ELSE IF r.route = "/api/columns"
        THEN IF r.body.kind = "null" THEN CatchError("TypeError")
             ELSE IF ~ColumnsIsArray(r.body)
                 THEN SendResponse(400, NoDoc, "Invalid format: columns must be an array.")
             ELSE Goto("read", NoDoc)
    ELSE IF ~IsRecordObject(r.body)
        THEN SendResponse(400, NoDoc, "Invalid format: Request body must be a single record object.")
    ELSE Goto("read", NoDoc)

\* Mutant of OnLoaded: GET /api/data answers with the records alone.
OnLoadedRecordsOnly(r, d) ==
    IF r.method = "GET" THEN SendResponse(200, Doc(d.kind, <<>>, d.records), "")
    ELSE IF r.route = "/api/columns"
        THEN IF d.kind # "ok" THEN CatchError("TypeError")
             ELSE Goto("write", UpdateColumns(d, r.body.cols))
    ELSE IF r.route = "/api/records"
        THEN IF d.kind # "ok" THEN CatchError("TypeError")
             ELSE IF r.body.kind = "null" /\ d.columns # <<>> THEN CatchError("TypeError")
             ELSE Goto("write", PushRecord(d, r.body))
    ELSE LET index == ParseInt(r.seg)
         IN  IF index.nan \/ index.val < 0
                 THEN SendResponse(404, NoDoc, "Invalid or out of bounds record index.")
             ELSE IF d.kind # "ok" THEN CatchError("TypeError")
             ELSE IF index.val >= Len(d.records)
                 THEN SendResponse(404, NoDoc, "Invalid or out of bounds record index.")
             ELSE Goto("write", Splice(d, index.val))

\* From readData's return to the next await, d being what it returned.
OnLoaded(r, d) ==
    IF r.method = "GET" THEN SendResponse(200, Stringify(d), "")
    ELSE IF r.route = "/api/columns"
        THEN IF d.kind # "ok" THEN CatchError("TypeError")
             ELSE Goto("write", UpdateColumns(d, r.body.cols))
    ELSE IF r.route = "/api/records"
        THEN IF d.kind # "ok" THEN CatchError("TypeError")
             ELSE IF r.body.kind = "null" /\ d.columns # <<>> THEN CatchError("TypeError")
             ELSE Goto("write", PushRecord(d, r.body))
    ELSE LET index == ParseInt(r.seg)
         IN  IF index.nan \/ index.val < 0
                 THEN SendResponse(404, NoDoc, "Invalid or out of bounds record index.")
             ELSE IF d.kind # "ok" THEN CatchError("TypeError")
             ELSE IF index.val >= Len(d.records)
                 THEN SendResponse(404, NoDoc, "Invalid or out of bounds record index.")
             ELSE Goto("write", Splice(d, index.val))

\* Mutant of SavedDoc: the save re-reads the document and appends the
\* handler's last record to it instead of overwriting it.
SavedDocMerged(c) ==
    IF file.kind = "ok" /\ req[c].route = "/api/records"
    THEN Stringify(Doc("ok", data[c].columns,
                       Append(file.records, data[c].records[Len(data[c].records)])))
    ELSE Stringify(data[c])

\* What writeData stores: JSON.stringify of the handler's data.
SavedDoc(c) == Stringify(data[c])

\* Mutant of OnSaved: the response carries the dataset as it was loaded.
OnSavedStale(c) == SendResponse(SuccessStatus(req[c]), loaded[c], "")

\* After writeData: the success response carries the same data.
OnSaved(c) == SendResponse(SuccessStatus(req[c]), Stringify(data[c]), "")

\* ------------------------------------------------------------ actions
InFlight(c) == pc[c] \notin {"idle", "done"}

\* The handler of connection c moves as outcome o says.
Apply(c, o) ==
    /\ pc' = [pc EXCEPT ![c] = o.next]
    /\ data' = [data EXCEPT ![c] = o.data]
    /\ IF o.next = "done"
       THEN /\ status' = [status EXCEPT ![c] = o.status]
            /\ out' = [out EXCEPT ![c] = [doc |-> o.doc, message |-> o.message]]
            /\ sent' = [sent EXCEPT ![c] = @ + 1]
       ELSE UNCHANGED <<status, out, sent>>

\* Datasets data.json may hold when the server starts.
Rec12 == Obj([a |-> "s:1", b |-> "s:2"])
Rec34 == Obj([a |-> "s:3", b |-> "s:4"])
Rec56 == Obj([a |-> "s:5", b |-> "s:6"])

InitFiles ==
    {AbsentDoc, CorruptDoc, ShapelessDoc,
     Doc("ok", <<"a", "b">>, <<Rec12, Rec34, Rec56>>),
     Doc("ok", <<"a", "constructor">>, <<>>),
     Doc("ok", <<"a">>, <<Obj([a |-> "s:1", z |-> "s:9"])>>)}

Init ==
    /\ file \in InitFiles
    /\ writable \in BOOLEAN
    /\ pc = [c \in Conn |-> "idle"]
    /\ req = [c \in Conn |-> NoRequest]
    /\ data = [c \in Conn |-> NoDoc]
    /\ status = [c \in Conn |-> 0]
    /\ out = [c \in Conn |-> [doc |-> NoDoc, message |-> ""]]
    /\ sent = [c \in Conn |-> 0]
    /\ loaded = [c \in Conn |-> NoDoc]
    /\ pre = [c \in Conn |-> NoDoc]
    /\ solo = [c \in Conn |-> TRUE]
    /\ nread = [c \in Conn |-> 0]
    /\ nwrite = [c \in Conn |-> 0]
    /\ quiet = [c \in Conn |-> TRUE]
    /\ lastWriter = 0
    /\ started = 0

\* http.createServer calls requestListener(req, res); it runs to its first await.
\* A new request takes the lowest idle connection.
Arrive(c) ==
    /\ pc[c] = "idle"
    /\ \A k \in Conn : k < c => pc[k] # "idle"
    /\ started < MaxStarted
    /\ \E r \in Requests :
        /\ req' = [req EXCEPT ![c] = r]
        /\ Apply(c, OnArrival(r))
    /\ started' = started + 1
    /\ pre' = [pre EXCEPT ![c] = file]
    /\ solo' = [k \in Conn |->
                   IF k = c THEN \A o \in Conn \ {c} : ~InFlight(o)
                   ELSE IF InFlight(k) THEN FALSE ELSE solo[k]]
    /\ quiet' = [quiet EXCEPT ![c] = TRUE]
    /\ UNCHANGED <<file, writable, loaded, nread, nwrite, lastWriter>>

\* req.on('end'): the body is complete.
BodyEnd(c) ==
    /\ pc[c] = "body"
    /\ req[c].stream = "end"
    /\ Apply(c, OnBody(req[c]))
    /\ UNCHANGED <<file, writable, req, loaded, pre, solo, nread, nwrite, quiet, lastWriter, started>>

\* req.on('error', reject)
BodyError(c) ==
    /\ pc[c] = "body"
    /\ req[c].stream = "error"
    /\ Apply(c, CatchError("stream error"))
    /\ UNCHANGED <<file, writable, req, loaded, pre, solo, nread, nwrite, quiet, lastWriter, started>>

\* Mutant of ReadFile: the catch of readData does not look at error.code, so
\* every failure is taken for a missing file.
ReadFileRecover(c) ==
    /\ pc[c] = "read"
    /\ nread' = [nread EXCEPT ![c] = @ + 1]
    /\ IF file.kind \in {"absent", "corrupt"}
       THEN Apply(c, Goto("init", NoDoc)) /\ UNCHANGED loaded
       ELSE /\ Apply(c, OnLoaded(req[c], file))
            /\ loaded' = [loaded EXCEPT ![c] = file]
    /\ UNCHANGED <<file, writable, req, pre, solo, nwrite, quiet, lastWriter, started>>

\* readData: fs.readFile completes and JSON.parse runs.  ENOENT leads to the
\* writeFile of initialData; any other failure is thrown to the handler's catch.
ReadFile(c) ==
    /\ pc[c] = "read"
    /\ nread' = [nread EXCEPT ![c] = @ + 1]
    /\ IF file.kind = "absent"
       THEN Apply(c, Goto("init", NoDoc)) /\ UNCHANGED loaded
       ELSE IF file.kind = "corrupt"
       THEN Apply(c, CatchError("read or parse failure")) /\ UNCHANGED loaded
       ELSE /\ Apply(c, OnLoaded(req[c], file))
            /\ loaded' = [loaded EXCEPT ![c] = file]
    /\ UNCHANGED <<file, writable, req, pre, solo, nwrite, quiet, lastWriter, started>>

\* readData's catch: fs.writeFile(DATA_FILE, initialData) completes, and
\* readData returns initialData.
InitWrite(c) ==
    /\ pc[c] = "init"
    /\ IF writable
       THEN /\ file' = Stringify(InitialData)
            /\ nwrite' = [nwrite EXCEPT ![c] = @ + 1]
            /\ quiet' = [k \in Conn |-> FALSE]
            /\ lastWriter' = c
            /\ loaded' = [loaded EXCEPT ![c] = InitialData]
            /\ Apply(c, OnLoaded(req[c], InitialData))
       ELSE /\ Apply(c, CatchError("write failure"))
            /\ UNCHANGED <<file, nwrite, quiet, lastWriter, loaded>>
    /\ UNCHANGED <<writable, req, pre, solo, nread, started>>

\* writeData completes; the handler sends its success response.
WriteFile(c) ==
    /\ pc[c] = "write"
    /\ IF writable
       THEN /\ file' = SavedDoc(c)
            /\ nwrite' = [nwrite EXCEPT ![c] = @ + 1]
            /\ quiet' = [k \in Conn |-> FALSE]
            /\ lastWriter' = c
            /\ Apply(c, [OnSaved(c) EXCEPT !.data = data[c]])
       ELSE /\ Apply(c, [CatchError("write failure") EXCEPT !.data = data[c]])
            /\ UNCHANGED <<file, nwrite, quiet, lastWriter>>
    /\ UNCHANGED <<writable, req, loaded, pre, solo, nread, started>>

\* The response is out and the connection takes the next request.
Close(c) ==
    /\ pc[c] = "done"
    /\ started < MaxStarted
    /\ pc' = [pc EXCEPT ![c] = "idle"]
    /\ req' = [req EXCEPT ![c] = NoRequest]
    /\ data' = [data EXCEPT ![c] = NoDoc]
    /\ status' = [status EXCEPT ![c] = 0]
    /\ out' = [out EXCEPT ![c] = [doc |-> NoDoc, message |-> ""]]
    /\ sent' = [sent EXCEPT ![c] = 0]
    /\ loaded' = [loaded EXCEPT ![c] = NoDoc]
    /\ pre' = [pre EXCEPT ![c] = NoDoc]
    /\ solo' = [solo EXCEPT ![c] = TRUE]
    /\ nread' = [nread EXCEPT ![c] = 0]
    /\ nwrite' = [nwrite EXCEPT ![c] = 0]
    /\ quiet' = [quiet EXCEPT ![c] = TRUE]
    /\ lastWriter' = IF lastWriter = c THEN 0 ELSE lastWriter
    /\ UNCHANGED <<file, writable, started>>

\* The steps the event loop runs for a request in flight.
Step(c) == BodyEnd(c) \/ BodyError(c) \/ ReadFile(c) \/ InitWrite(c) \/ WriteFile(c)

Next == \E c \in Conn : Arrive(c) \/ Step(c) \/ Close(c)

Spec == Init /\ [][Next]_vars

\* Every record's keys are columns of its document.
Consistent(d) ==
    d.kind = "ok" =>
        \A i \in DOMAIN d.records : \A k \in Keys :
            d.records[i][k] # Undefined => k \in Range(d.columns)

\* The server starts with no document, or with a dataset whose records hold
\* no key that is not a column.
InitConsistent ==
    /\ Init
    /\ file.kind \in {"absent", "ok"}
    /\ Consistent(file)

ConsistentSpec == InitConsistent /\ [][Next]_vars

\* The event loop runs every callback that is ready, and file I/O completes.
FairSpec == Spec /\ \A c \in Conn : WF_vars(Step(c))

\* ------------------------------------------------------------ properties
Done(c) == pc[c] = "done"

IsPostRecords(c) == req[c].method = "POST" /\ req[c].route = "/api/records"
IsPostColumns(c) == req[c].method = "POST" /\ req[c].route = "/api/columns"
IsDelete(c) == req[c].method = "DELETE" /\ req[c].route = "/api/records/"

\* Request c was handled alone, on a dataset, with the body stream complete
\* and the document writable.
Undisturbed(c) ==
    /\ Done(c) /\ solo[c] /\ req[c].stream = "end"
    /\ pre[c].kind = "ok" /\ writable

\* The record C1 describes: exactly the columns, each the body's own truthy
\* field or the empty string.
ClaimedRecord(cols, b) ==
    [k \in Keys |->
        IF k \in Range(cols)
        THEN IF b.fields[k] # Undefined /\ Truthy(b.fields[k]) THEN b.fields[k] ELSE "s:"
        ELSE Undefined]

\* C1: a POST /api/records with a JSON-object (or empty) body, handled alone
\* on a dataset with columns C, is answered 201 and leaves the same columns
\* and the old records followed by one record with exactly the keys C, each
\* the body's truthy field or "".
C1_RecordAppended ==
    \A c \in Conn :
        (Undisturbed(c) /\ IsPostRecords(c) /\ req[c].body.kind \in {"object", "empty"})
        => /\ status[c] = 201
           /\ nwrite[c] = 1
           /\ lastWriter = c =>
                /\ file.columns = pre[c].columns
                /\ file.records =
                     Append(pre[c].records, ClaimedRecord(pre[c].columns, req[c].body))

\* C2: a POST /api/columns with columns array N, handled alone on a dataset,
\* is answered 200 and leaves columns N and every record as it was minus
\* exactly the keys that were old columns and are not in N.
C2_ColumnsReplaced ==
    \A c \in Conn :
        (Undisturbed(c) /\ IsPostColumns(c) /\ ColumnsIsArray(req[c].body))
        => /\ status[c] = 200
           /\ nwrite[c] = 1
           /\ lastWriter = c =>
                /\ file.kind = "ok"
                /\ file.columns = req[c].body.cols
                /\ Len(file.records) = Len(pre[c].records)
                /\ \A i \in DOMAIN pre[c].records : \A k \in Keys :
                     file.records[i][k] =
                        IF k \in Range(pre[c].columns) \ Range(req[c].body.cols)
                        THEN Undefined
                        ELSE pre[c].records[i][k]

\* A column was removed from a record that had it, another key was kept.
C2_Witness ==
    \E c \in Conn :
        /\ Undisturbed(c) /\ IsPostColumns(c) /\ ColumnsIsArray(req[c].body)
        /\ lastWriter = c
        /\ \E i \in DOMAIN pre[c].records :
              /\ \E k \in Keys : pre[c].records[i][k] # Undefined /\ file.records[i][k] = Undefined
              /\ \E k \in Keys : file.records[i][k] # Undefined
        /\ \E k \in Range(file.columns) : k \notin Range(pre[c].columns)

DecimalChars == {"0", "1", "2", "3", "4", "5", "6", "7", "8", "9"}

\* The segment is a base-10 integer: decimal digits only, at least one.
IsDecimal(sg) == sg # <<>> /\ \A i \in DOMAIN sg : sg[i] \in DecimalChars

\* C3: on a dataset with n records DELETE /api/records/{i} is answered 200
\* exactly when i is a base-10 integer with 0 <= i < n, and 404 otherwise,
\* the store then being left as it was.
C3_DeleteStatus ==
    \A c \in Conn :
        (Done(c) /\ IsDelete(c) /\ pre[c].kind = "ok" /\ loaded[c].kind = "ok" /\ writable)
        => LET n == Len(loaded[c].records)
               valid == IsDecimal(req[c].seg) /\ DigitsValue(req[c].seg, 10, 0) < n
           IN  /\ status[c] = 200 <=> valid
               /\ ~valid => status[c] = 404 /\ nwrite[c] = 0

\* C4: a successful DELETE /api/records/{i} handled alone removes exactly the
\* record at position i, later records moving down by one, columns kept; two
\* successive deletes of index 0 on [r0, r1, r2] leave [r2].
C4_DeleteShifts ==
    /\ \A c \in Conn :
        (Undisturbed(c) /\ IsDelete(c) /\ status[c] = 200)
        => LET i == ParseInt(req[c].seg).val
           IN  /\ nwrite[c] = 1
               /\ lastWriter = c =>
                    /\ file.columns = pre[c].columns
                    /\ Len(file.records) = Len(pre[c].records) - 1
                    /\ \A j \in DOMAIN file.records :
                         file.records[j] =
                            IF j <= i THEN pre[c].records[j] ELSE pre[c].records[j + 1]
    /\ \A c1, c2 \in Conn :
        (/\ Undisturbed(c1) /\ IsDelete(c1) /\ status[c1] = 200 /\ req[c1].seg = <<"0">>
         /\ Undisturbed(c2) /\ IsDelete(c2) /\ status[c2] = 200 /\ req[c2].seg = <<"0">>
         /\ Len(pre[c1].records) = 3 /\ pre[c2] = out[c1].doc /\ lastWriter = c2)
        => file.records = <<pre[c1].records[3]>>

\* Two successive deletes of index 0 on three distinct records.
C4_Witness ==
    \E c1, c2 \in Conn :
        /\ Undisturbed(c1) /\ IsDelete(c1) /\ status[c1] = 200 /\ req[c1].seg = <<"0">>
        /\ Undisturbed(c2) /\ IsDelete(c2) /\ status[c2] = 200 /\ req[c2].seg = <<"0">>
        /\ pre[c1].records = <<Rec12, Rec34, Rec56>>
        /\ pre[c2] = out[c1].doc /\ lastWriter = c2
        /\ file.records = <<Rec56>>

\* C5: a POST /api/records whose body is malformed JSON is answered 400 and
\* does not change the store.
C5_MalformedIs400 ==
    \A c \in Conn :
        (Done(c) /\ IsPostRecords(c) /\ req[c].stream = "end"
         /\ req[c].body.kind = "malformed")
        => status[c] = 400 /\ nwrite[c] = 0

\* C6: POST /api/records is answered 400, the store untouched, for every
\* decoded body that is an array, null, a string, a number or a boolean, and
\* 201 only for plain objects (an empty body counting as {}).
C6_NonObjectIs400 ==
    \A c \in Conn :
        (Done(c) /\ IsPostRecords(c) /\ req[c].stream = "end")
        => /\ req[c].body.kind \in {"array", "null", "string", "number", "boolean"}
                => status[c] = 400 /\ nread[c] = 0 /\ nwrite[c] = 0
           /\ status[c] = 201 => req[c].body.kind \in {"object", "empty"}

\* C7: POST /api/columns is answered 400, the store neither read nor written,
\* whenever the decoded body has no `columns` field or one that is no array.
C7_NoColumnsIs400 ==
    \A c \in Conn :
        (Done(c) /\ IsPostColumns(c) /\ req[c].stream = "end"
         /\ req[c].body.kind # "malformed" /\ ~ColumnsIsArray(req[c].body))
        => status[c] = 400 /\ nread[c] = 0 /\ nwrite[c] = 0

\* Request c changed the store and was told so.
Succeeded(c) == Done(c) /\ status[c] \in {200, 201} /\ nwrite[c] >= 1

\* C8: when two mutating requests loaded the same dataset and both were
\* answered with success, the store holds what the one that saved last
\* computed from that dataset alone; of two POST /api/records one record
\* is there, not two.
C8_LostUpdate ==
    \A c1, c2 \in Conn :
        (/\ c1 # c2 /\ Succeeded(c1) /\ Succeeded(c2)
         /\ loaded[c1] = loaded[c2] /\ lastWriter = c2)
        => /\ file = out[c2].doc
           /\ (IsPostRecords(c1) /\ IsPostRecords(c2))
                => /\ Len(file.records) = Len(loaded[c2].records) + 1
                   /\ file.records[Len(file.records)] =
                         StringifyRecord(ValidRecord(loaded[c2].columns, req[c2].body))

\* Two POST /api/records raced: both were answered 201, and the record of the
\* first to save is not in the store.
C8_Witness ==
    \E c1, c2 \in Conn :
        /\ c1 # c2 /\ IsPostRecords(c1) /\ IsPostRecords(c2)
        /\ Succeeded(c1) /\ Succeeded(c2)
        /\ status[c1] = 201 /\ status[c2] = 201
        /\ loaded[c1] = loaded[c2] /\ loaded[c1].columns # <<>>
        /\ lastWriter = c2
        /\ LET mine == out[c1].doc.records
           IN  mine[Len(mine)] \notin Range(file.records)

\* C9: every request whose body stream ends or errors gets exactly one
\* response, whatever fails on the way; no request is answered twice.
C9_AnsweredOnce ==
    /\ [](\A c \in Conn : sent[c] = IF Done(c) THEN 1 ELSE 0)
    /\ \A c \in Conn : (InFlight(c) /\ req[c].stream # "hang") ~> (Done(c) /\ sent[c] = 1)

\* A request that reached its save, which failed, was answered 500, once.
C9_Witness ==
    \E c \in Conn :
        /\ Done(c) /\ sent[c] = 1 /\ status[c] = 500
        /\ ~writable /\ loaded[c].kind = "ok" /\ IsPostRecords(c)

\* C10: an OPTIONS request to any path is answered 204 with an empty body
\* and neither reads nor writes the document.
C10_Options ==
    \A c \in Conn :
        (Done(c) /\ req[c].method = "OPTIONS")
        => /\ status[c] = 204
           /\ out[c] = [doc |-> NoDoc, message |-> ""]
           /\ nread[c] = 0 /\ nwrite[c] = 0

\* OPTIONS answered while the document is absent or corrupt.
C10_Witness ==
    \E c \in Conn :
        /\ Done(c) /\ req[c].method = "OPTIONS" /\ req[c].route = "/other"
        /\ status[c] = 204 /\ file.kind \in {"absent", "corrupt"}

IsGetData(c) == req[c].method = "GET" /\ req[c].route = "/api/data"

\* The default dataset, as the claims state it.
EmptyDataset == Doc("ok", <<>>, <<>>)

\* C11: with the document absent and no other request in flight, the first
\* operation that loads the store creates the document holding
\* {columns: [], records: []} and works on that empty dataset; a GET
\* /api/data is then answered 200 with the empty dataset.
C11_FirstLoadCreates ==
    /\ [][\A c \in Conn :
            (pc[c] = "init" /\ pc'[c] # "init" /\ writable /\ solo[c])
            => /\ loaded'[c] = EmptyDataset
               /\ file' = EmptyDataset
               /\ pc'[c] = "write" => Len(data'[c].records) <= 1]_vars
    /\ [](\A c \in Conn :
            (Done(c) /\ solo[c] /\ pre[c].kind = "absent" /\ writable /\ IsGetData(c))
            => /\ status[c] = 200
               /\ out[c].doc = EmptyDataset
               /\ nwrite[c] = 1
               /\ lastWriter = c => file = EmptyDataset)

\* A GET /api/data on an absent document, handled alone, created it.
C11_Witness ==
    \E c \in Conn :
        /\ Done(c) /\ solo[c] /\ pre[c].kind = "absent" /\ IsGetData(c)
        /\ status[c] = 200 /\ lastWriter = c /\ file = EmptyDataset

IsMutating(c) == IsPostColumns(c) \/ IsPostRecords(c) \/ IsDelete(c)

\* C12: a mutating request sends its success response (200 or 201) only
\* after it loaded the dataset and after its save of the whole document has
\* completed, and the response body is the dataset this request saved.
C12_SavedBeforeAnswer ==
    /\ [][\A c \in Conn :
            (status[c] = 0 /\ status'[c] \in {200, 201} /\ IsMutating(c))
            => /\ pc[c] = "write"
               /\ loaded[c].kind = "ok"
               /\ nwrite'[c] = nwrite[c] + 1
               /\ out'[c].doc.kind = "ok"
               /\ file' = out'[c].doc]_vars
    /\ [](\A c \in Conn :
            (Done(c) /\ IsMutating(c) /\ status[c] \in {200, 201})
            => /\ nread[c] >= 1 /\ nwrite[c] >= 1
               /\ lastWriter = c => file = out[c].doc)

\* A POST /api/columns that changed the dataset was answered with what it saved.
C12_Witness ==
    \E c \in Conn :
        /\ Done(c) /\ IsPostColumns(c) /\ status[c] = 200
        /\ lastWriter = c /\ file = out[c].doc /\ file # loaded[c]
        /\ Len(file.records) > 0

\* The request gets as far as readData: GET /api/data, a POST whose body has
\* the shape its route wants, any DELETE /api/records/{i}.
ReachesStore(c) ==
    \/ IsGetData(c)
    \/ IsPostColumns(c) /\ req[c].stream = "end" /\ ColumnsIsArray(req[c].body)
    \/ IsPostRecords(c) /\ req[c].stream = "end" /\ req[c].body.kind \in {"object", "empty"}
    \/ IsDelete(c)

\* C13: while the document exists and cannot be read or parsed, every request
\* that reaches the store is answered 500, and the document is neither
\* overwritten nor re-initialized.
C13_CorruptIs500 ==
    /\ [][file.kind = "corrupt" => file' = file]_vars
    /\ [](\A c \in Conn :
            (Done(c) /\ pre[c].kind = "corrupt" /\ ReachesStore(c))
            => status[c] = 500 /\ nread[c] = 1 /\ nwrite[c] = 0 /\ file = CorruptDoc)

\* A DELETE and a POST /api/records on a corrupt, writable document, both
\* answered 500.
C13_Witness ==
    \E c1, c2 \in Conn :
        /\ Done(c1) /\ IsDelete(c1) /\ status[c1] = 500 /\ pre[c1].kind = "corrupt"
        /\ Done(c2) /\ IsPostRecords(c2) /\ status[c2] = 500 /\ nread[c2] = 1
        /\ writable /\ file = CorruptDoc

\* C14: GET /api/data requests on a stored dataset, with no write to the store
\* since the earliest of them arrived (no mutation between or during them),
\* are all answered 200 with the same dataset, the stored one.
C14_RepeatedGet ==
    \A c1, c2 \in Conn :
        (/\ Done(c1) /\ IsGetData(c1) /\ Done(c2) /\ IsGetData(c2)
         /\ quiet[c1] /\ quiet[c2] /\ file.kind = "ok")
        => /\ status[c1] = 200 /\ status[c2] = 200
           /\ out[c1].doc = file /\ out[c2].doc = file

\* Two GET /api/data were answered with the three stored records.
C14_Witness ==
    \E c1, c2 \in Conn :
        /\ c1 # c2 /\ Done(c1) /\ IsGetData(c1) /\ Done(c2) /\ IsGetData(c2)
        /\ quiet[c1] /\ quiet[c2]
        /\ status[c1] = 200 /\ status[c2] = 200
        /\ out[c1].doc = out[c2].doc /\ out[c1].doc = file
        /\ Len(file.records) = 3 /\ file.columns = <<"a", "b">>

\* C15: from an absent document or a dataset whose records hold only column
\* keys, whatever requests run and however they interleave, every stored
\* record's key set is a subset of the stored columns.
C15_KeysWithinColumns == file.kind \in {"absent", "ok"} /\ Consistent(file)

\* A column was removed while records existed, concurrently with another
\* mutating request.
C15_Witness ==
    \E c \in Conn :
        /\ Done(c) /\ IsPostColumns(c) /\ status[c] = 200 /\ ~solo[c]
        /\ lastWriter = c /\ Len(file.records) > 0
        /\ \E k \in Range(loaded[c].columns) : k \notin Range(file.columns)
        /\ \E i \in DOMAIN loaded[c].records : loaded[c].records[i] # file.records[i]

\* The dataset the store holds: an absent document holds the empty one.
StoredDataset(f) == IF f.kind = "absent" THEN EmptyDataset ELSE f

\* C16: no step of a GET /api/data changes the columns or records the store
\* holds, under any interleaving.
C16_GetChangesNothing ==
    [][\A c \in Conn :
          (IsGetData(c) /\ pc[c] \in {"read", "init"} /\ pc'[c] # pc[c])
          => StoredDataset(file') = StoredDataset(file)]_vars

\* The string values that occur.
StringValues == {"s:", "s:x", "s:y", "s:c", "s:1", "s:2", "s:3", "s:4", "s:5", "s:6", "s:9"}

\* C17: every value of every stored record is a string.
C17_StringValues ==
    file.kind = "ok" =>
        \A i \in DOMAIN file.records : \A k \in Keys :
            file.records[i][k] # Undefined => file.records[i][k] \in StringValues

\* C18: a request answered 400, or 404, changes nothing in the store by any
\* of its steps; one answered 400, or 404 Not Found for an unmatched route,
\* has not read the store either.
C18_FailureChangesNothing ==
    /\ [](\A c \in Conn :
            (Done(c) /\ (status[c] = 400 \/ (status[c] = 404 /\ ~IsDelete(c))))
            => nread[c] = 0 /\ nwrite[c] = 0)
    /\ [][\A c \in Conn :
            (status'[c] \in {400, 404} /\ pc[c] # "idle" /\ pc'[c] # pc[c])
            => StoredDataset(file') = StoredDataset(file)]_vars

====
